---- MODULE Spec2Model ----
(***************************************************************************)
(* Model of the RHOAI demo notebooks: the KFP fraud pipeline               *)
(* (fsi-fraud-pipeline.py), the export-and-upload script                   *)
(* (train-and-upload.py), the inference smoke test (inference-test.py)     *)
(* and the GPU scripts (gpu-check.py, gpu-demo.py).                        *)
(*                                                                         *)
(* Each script is a separate program; the variable `script` says which one *)
(* a behaviour runs.  Paths and S3 keys are sequences of path components.  *)
(* Real-valued quantities are exact: scores are in hundredths, normalized  *)
(* values are fractions <<numerator, denominator>> in units of 1e-8.       *)
(***************************************************************************)
EXTENDS Integers, Sequences, FiniteSets, TLC

\* ------------------------------------------------------------------ bounds
MaxRows == 3
MaxGpus == 2

\* --------------------------------------------------------- program constants
AmountThreshold == 1000
AccountAgeThreshold == 90
TxFrequencyThreshold == 10
AmountWeight == 30
AccountAgeWeight == 30
TxFrequencyWeight == 20
FraudThreshold == 50
EpsilonInverse == 100000000

\* ------------------------------------------------------------ generic helpers
EmptyMap == [p \in {} |-> ""]

Put(f, k, v) == [x \in (DOMAIN f) \cup {k} |-> IF x = k THEN v ELSE f[x]]

IsPrefix(r, p) == Len(r) <= Len(p) /\ SubSeq(p, 1, Len(r)) = r

Range(s) == {s[i] : i \in DOMAIN s}

\* os.path.join on path components
os_path_join(a, b) == a \o b

\* os.path.relpath(p, start) for a path p below start
os_path_relpath(p, start) == SubSeq(p, Len(start) + 1, Len(p))

\* directory part of a file path
os_path_dirname(p) == SubSeq(p, 1, Len(p) - 1)

\* files of the tree rooted at root (what os.walk enumerates)
os_walk(f, root) == {p \in DOMAIN f : IsPrefix(root, p) /\ Len(p) > Len(root)}

\* os.walk is top-down: the files of a directory are yielded before the
\* files of any directory below it; the order inside a listing is unspecified
NextWalked(remaining) ==
    {p \in remaining : \A q \in remaining :
        ~(os_path_dirname(q) # os_path_dirname(p)
          /\ IsPrefix(os_path_dirname(q), os_path_dirname(p)))}

\* variant: nothing removed
shutil_rmtree_skipped(f, root) == f

\* shutil.rmtree(root)
shutil_rmtree(f, root) == [p \in {q \in DOMAIN f : ~IsPrefix(root, q)} |-> f[p]]

\* os.path.exists(root) for a directory that exists iff it holds a file
os_path_exists(f, root) == \E p \in DOMAIN f : IsPrefix(root, p)

\* ------------------------------------------------------------ tables and CSV
RawCols == <<"amount", "category", "time_delta", "account_age_days", "tx_frequency_7d">>

NormName(c) ==
    CASE c = "amount" -> "amount_norm"
      [] c = "category" -> "category_norm"
      [] c = "time_delta" -> "time_delta_norm"
      [] c = "account_age_days" -> "account_age_days_norm"
      [] c = "tx_frequency_7d" -> "tx_frequency_7d_norm"

\* DataFrame.to_csv(index=False): a header line and one tuple of fields per row
to_csv(cols, rows) ==
    [header |-> cols,
     lines |-> [i \in DOMAIN rows |-> [j \in DOMAIN cols |-> rows[i][cols[j]]]]]

ColumnIndex(header, c) == CHOOSE j \in DOMAIN header : header[j] = c

\* pd.read_csv: rows keyed by the header's column names
read_csv(file) ==
    [i \in DOMAIN file.lines |->
        [c \in Range(file.header) |-> file.lines[i][ColumnIndex(file.header, c)]]]

NoFile == [header |-> <<>>, lines |-> <<>>]

Indicator(b) == IF b THEN 1 ELSE 0

\* fraud_score in hundredths
fraud_score(row, noise) ==
    Indicator(row.amount > AmountThreshold) * AmountWeight
    + Indicator(row.account_age_days < AccountAgeThreshold) * AccountAgeWeight
    + Indicator(row.tx_frequency_7d > TxFrequencyThreshold) * TxFrequencyWeight
    + noise

\* variant: the threshold comparison made inclusive
is_fraud_label_inclusive(score) == Indicator(score >= FraudThreshold)

is_fraud_label(score) == Indicator(score > FraudThreshold)

Draw(amount, category, time_delta, account_age_days, tx_frequency_7d, noise) ==
    [amount |-> amount, category |-> category, time_delta |-> time_delta,
     account_age_days |-> account_age_days, tx_frequency_7d |-> tx_frequency_7d,
     noise |-> noise]

\* the draws of one row: a sample in which every column takes two values
\* (amount, account age and frequency on both sides of their thresholds, the
\* noise at both ends of its range) and every pair of columns takes all four
\* combinations; scores 0, 0.4, 0.5, 0.6 and 1.0 occur
Draws ==
    {Draw(1000, 3, 3600, 90, 10, 0),
     Draw(1001, 4, 3601, 90, 10, 20),
     Draw(1000, 4, 3600, 89, 10, 20),
     Draw(1000, 3, 3601, 90, 11, 20),
     Draw(1001, 3, 3601, 89, 10, 0),
     Draw(1001, 4, 3600, 90, 11, 0),
     Draw(1000, 4, 3601, 89, 11, 0),
     Draw(1001, 3, 3600, 89, 11, 20)}

GeneratedRow(d) ==
    [c \in Range(RawCols) \cup {"is_fraud"} |->
        IF c = "is_fraud" THEN is_fraud_label(fraud_score(d, d.noise)) ELSE d[c]]

SetMin(S) == CHOOSE x \in S : \A y \in S : x <= y
SetMax(S) == CHOOSE x \in S : \A y \in S : x >= y

\* variant: the epsilon term left out of the denominator
Normalize_no_epsilon(v, min_val, max_val) ==
    <<(v - min_val) * EpsilonInverse, (max_val - min_val) * EpsilonInverse>>

\* (value - min) / (max - min + 1e-8) as <<numerator, denominator>> in 1e-8 units
Normalize(v, min_val, max_val) ==
    <<(v - min_val) * EpsilonInverse, (max_val - min_val) * EpsilonInverse + 1>>

ColumnValues(rows, c) == {rows[i][c] : i \in DOMAIN rows}

norm_cols == [j \in DOMAIN RawCols |-> NormName(RawCols[j])]

RawOf(c) == RawCols[CHOOSE j \in DOMAIN RawCols : norm_cols[j] = c]

\* the loop over feature_cols: every row gains the five *_norm columns
WithNormColumns(rows) ==
    [i \in DOMAIN rows |->
        [c \in (DOMAIN rows[i]) \cup Range(norm_cols) |->
            IF c \in DOMAIN rows[i] THEN rows[i][c]
            ELSE Normalize(rows[i][RawOf(c)], SetMin(ColumnValues(rows, RawOf(c))),
                           SetMax(ColumnValues(rows, RawOf(c))))]]

\* variant: the column selection left out, the whole frame is written
ResultCols_unselected == RawCols \o norm_cols \o <<"is_fraud">>

\* result = data[norm_cols + ["is_fraud"]]
ResultCols == norm_cols \o <<"is_fraud">>

GeneratedCols == RawCols \o <<"is_fraud">>

\* train_test_split(test_size=0.2): n_test = ceil(0.2 * n)
TestSize(n) == (2 * n + 9) \div 10

\* ------------------------------------------------------------ pipeline wiring
Steps == {"data_processing", "feature_extract", "train_model", "upload_model"}

\* variant: upload_model called without the trainer's output
task_inputs_unwired(s) ==
    CASE s = "data_processing" -> {}
      [] s = "feature_extract" -> {"dataset"}
      [] s = "train_model" -> {"features"}
      [] s = "upload_model" -> {}

\* the artifacts a task is passed in fsi_fraud_pipeline
task_inputs(s) ==
    CASE s = "data_processing" -> {}
      [] s = "feature_extract" -> {"dataset"}
      [] s = "train_model" -> {"features"}
      [] s = "upload_model" -> {"model"}

\* the task whose outputs[...] an artifact is
Producer(a) ==
    CASE a = "dataset" -> "data_processing"
      [] a = "features" -> "feature_extract"
      [] a = "model" -> "train_model"

\* --------------------------------------------------------- files and S3 keys
model_path == <<"model">>
PipelinePrefix == <<"pipeline-output">>

LOCAL_TEMP_DIR == <<"temp_export">>
MODEL_VERSION == <<"1">>
MODEL_NAME == <<"demo-model">>
BUCKET_PREFIX == <<"production">>

\* variant: the version directory left out of the export path
export_path_unversioned == os_path_join(LOCAL_TEMP_DIR, <<"model.savedmodel">>)

export_path == os_path_join(os_path_join(LOCAL_TEMP_DIR, MODEL_VERSION), <<"model.savedmodel">>)
config_path == os_path_join(LOCAL_TEMP_DIR, <<"config.pbtxt">>)

\* the files model.export writes below export_path
SavedModelFiles ==
    {<<"saved_model.pb">>, <<"fingerprint.pb">>,
     <<"variables", "variables.data-00000-of-00001">>,
     <<"variables", "variables.index">>}

\* the files train_model writes below model.path
TrainedFiles == {<<"model.pkl">>, <<"test_data.npz">>}

Scripts == {"pipeline", "export", "inference", "gpu_check", "gpu_demo"}

UploadRoot(sc) == IF sc = "pipeline" THEN model_path ELSE LOCAL_TEMP_DIR

UploadPrefix(sc) ==
    IF sc = "pipeline" THEN PipelinePrefix ELSE os_path_join(BUCKET_PREFIX, MODEL_NAME)

\* variant: the key built from the file name instead of the relative path
s3_key_basename(prefix, local_path, root) == os_path_join(prefix, <<local_path[Len(local_path)]>>)

\* s3_key = f"{prefix}/{relative}" / os.path.join(BUCKET_PREFIX, MODEL_NAME, relative_path)
s3_key(prefix, local_path, root) == os_path_join(prefix, os_path_relpath(local_path, root))

\* variant: the exception swallowed, the loop carries on
OnTransferError_swallowed == "upload"

\* no try/except around s3.upload_file: the exception ends the run
OnTransferError == "failed"

Stale == <<"stale">>

\* objects an earlier run may have left in the bucket
StaleKeys(sc) ==
    IF sc = "pipeline"
    THEN {<<"pipeline-output", "model.pkl">>, <<"pipeline-output", "validation.json">>}
    ELSE {<<"production", "demo-model", "config.pbtxt">>,
          <<"production", "demo-model", "0", "model.savedmodel", "saved_model.pb">>}

\* files an earlier run may have left in temp_export
LeftoverFiles ==
    {<<"temp_export", "config.pbtxt">>,
     <<"temp_export", "0", "model.savedmodel", "saved_model.pb">>,
     <<"temp_export", "1", "model.savedmodel", "assets", "vocab.txt">>}

\* ------------------------------------------------------------ smoke test
TRITON_URL == "/v2/models/demo-model"
InferUrl == "/v2/models/demo-model/infer"

\* TF/Keras appends a suffix to the input tensor name on each export
InputNames == {"keras_tensor", "keras_tensor_1"}

NoBody == [inputs |-> <<>>]

data == <<10, 50, 30, 70, 20>>
data2 == <<90, 10, 80, 20, 95>>

\* variant: the tensor name hard-coded
input_name_fixed(md) == "keras_tensor"

\* metadata['inputs'][0]['name']
input_name_of(md) == md.inputs[1].name

Payload(name, d) ==
    [inputs |-> << [name |-> name, shape |-> <<1, 5>>, datatype |-> "FP32", data |-> d] >>]

\* payload["inputs"][0]["data"] = data2
SetData(pl, d) == [pl EXCEPT !.inputs[1].data = d]

Metadata(name) ==
    [name |-> "demo-model",
     inputs |-> <<[name |-> name, shape |-> <<-1, 5>>]>>,
     outputs |-> <<[name |-> "output_0", shape |-> <<-1, 1>>]>>]

NoMetadata == [name |-> "", inputs |-> <<>>, outputs |-> <<>>]

\* ------------------------------------------------------------ GPU scripts
\* variant: the inventory test always true
HasGpu_always(n) == n >= 0

\* len(gpus) > 0
HasGpu(n) == n > 0

\* ------------------------------------------------------------------ state
VARIABLES
    script,     \* the program this behaviour runs
    pc,         \* its position
    gpus,       \* number of GPUs in the device inventory
    status,     \* pipeline: state of each task
    order,      \* pipeline: the tasks in the order they started
    access,     \* pipeline: <<task, "read"/"write", artifact>> accesses so far
    draws,      \* data_processing: the random draws behind the table
    dataset,    \* the artifact file dataset/transactions.csv
    features,   \* the artifact file features/features.csv
    fs,         \* local files: path -> contents
    fs_0,       \* the local files at program start
    s3,         \* bucket "models": key -> contents
    s3_0,       \* the bucket at program start
    created,    \* export script: the files this run wrote
    todo,       \* upload loop: files the walk has not reached yet
    calls,      \* the s3.upload_file calls made so far
    requests,   \* smoke test: the HTTP requests issued so far
    metadata,   \* smoke test: the parsed metadata response
    payload,    \* smoke test: the payload dict
    matmuls,    \* GPU scripts: the device of each tf.matmul attempted
    out         \* GPU scripts: the lines printed

vars == <<script, pc, gpus, status, order, access, draws, dataset, features, fs, fs_0,
          s3, s3_0, created, todo, calls, requests, metadata, payload, matmuls, out>>

pipelineVars == <<status, order, access, draws, dataset, features>>
uploadVars == <<todo, calls>>
httpVars == <<requests, metadata, payload>>
gpuVars == <<matmuls, out>>
envVars == <<script, gpus, fs_0, s3_0>>

MapsOver(keys, v) == {[k \in K |-> v] : K \in SUBSET keys}

\* the bucket before the run: empty, or holding an earlier run's objects
RemoteStates(sc) == MapsOver(StaleKeys(sc), Stale)

InitCommon ==
    /\ status = [s \in Steps |-> "pending"]
    /\ order = <<>>
    /\ access = {}
    /\ draws = <<>>
    /\ dataset = NoFile
    /\ features = NoFile
    /\ fs_0 = fs
    /\ s3_0 = s3
    /\ created = {}
    /\ todo = {}
    /\ calls = <<>>
    /\ requests = <<>>
    /\ metadata = NoMetadata
    /\ payload = NoBody
    /\ matmuls = <<>>
    /\ out = <<>>

InitPipeline ==
    /\ script = "pipeline"
    /\ pc = "dag"
    /\ gpus = 0
    /\ fs = EmptyMap
    /\ s3 \in RemoteStates("pipeline")
    /\ InitCommon

InitExport ==
    /\ script = "export"
    /\ pc = "cleanup"
    /\ gpus = 0
    /\ fs \in MapsOver(LeftoverFiles, Stale)
    /\ s3 \in RemoteStates("export")
    /\ InitCommon

InitInference ==
    /\ script = "inference"
    /\ pc = "metadata"
    /\ gpus = 0
    /\ fs = EmptyMap
    /\ s3 = EmptyMap
    /\ InitCommon

InitGpu ==
    /\ script \in {"gpu_check", "gpu_demo"}
    /\ pc = "start"
    /\ gpus \in 0..MaxGpus
    /\ fs = EmptyMap
    /\ s3 = EmptyMap
    /\ InitCommon

Init == InitPipeline \/ InitExport \/ InitInference \/ InitGpu

\* ------------------------------------------------------------ the pipeline
\* a task is started once the tasks producing its inputs have succeeded
Ready(s) ==
    /\ script = "pipeline"
    /\ status[s] = "pending"
    /\ \A a \in task_inputs(s) : status[Producer(a)] = "succeeded"

Running(s) == script = "pipeline" /\ status[s] = "running"

\* the platform launches a task of the compiled graph
StartTask ==
    /\ \E s \in Steps :
          /\ Ready(s)
          /\ status' = [status EXCEPT ![s] = "running"]
          /\ order' = Append(order, s)
    /\ UNCHANGED <<pc, access, draws, dataset, features, fs, s3, created, uploadVars,
                   httpVars, gpuVars, envVars>>

data_processing ==
    /\ Running("data_processing")
    /\ \E n \in 1..MaxRows : \E d \in [1..n -> Draws] :
          /\ draws' = d
          /\ dataset' = to_csv(GeneratedCols, [i \in 1..n |-> GeneratedRow(d[i])])
    /\ status' = [status EXCEPT !["data_processing"] = "succeeded"]
    /\ order' = order
    /\ access' = access \cup {<<"data_processing", "write", "dataset">>}
    /\ UNCHANGED <<pc, features, fs, s3, created, uploadVars, httpVars, gpuVars, envVars>>

feature_extract ==
    /\ Running("feature_extract")
    /\ features' = to_csv(ResultCols, WithNormColumns(read_csv(dataset)))
    /\ status' = [status EXCEPT !["feature_extract"] = "succeeded"]
    /\ order' = order
    /\ access' = access \cup {<<"feature_extract", "read", "dataset">>,
                              <<"feature_extract", "write", "features">>}
    /\ UNCHANGED <<pc, draws, dataset, fs, s3, created, uploadVars, httpVars, gpuVars, envVars>>

\* train_test_split picks the held-out rows by a seeded shuffle; fitting needs
\* a non-empty training set with both classes, else a ValueError ends the task
train_model ==
    /\ Running("train_model")
    /\ LET rows == read_csv(features)
           n == Len(rows)
       IN \E test \in {T \in SUBSET (1..n) : Cardinality(T) = TestSize(n)} :
            IF Cardinality({rows[i]["is_fraud"] : i \in (1..n) \ test}) < 2
            THEN /\ status' = [status EXCEPT !["train_model"] = "failed"]
                 /\ access' = access \cup {<<"train_model", "read", "features">>}
                 /\ fs' = fs
            ELSE /\ status' = [status EXCEPT !["train_model"] = "succeeded"]
                 /\ access' = access \cup {<<"train_model", "read", "features">>,
                                           <<"train_model", "write", "model">>}
                 /\ fs' = [p \in (DOMAIN fs) \cup {os_path_join(model_path, f) : f \in TrainedFiles} |->
                             IF IsPrefix(model_path, p) THEN <<"trained", p[Len(p)]>> ELSE fs[p]]
    /\ order' = order
    /\ UNCHANGED <<pc, draws, dataset, features, s3, created, uploadVars, httpVars, gpuVars, envVars>>

\* upload_model up to the start of its os.walk loop
upload_model ==
    /\ Running("upload_model")
    /\ pc = "dag"
    /\ UNCHANGED <<status, order>>
    /\ access' = access \cup {<<"upload_model", "read", "model">>}
    /\ todo' = os_walk(fs, model_path)
    /\ pc' = "upload"
    /\ UNCHANGED <<draws, dataset, features, fs, s3, created, calls, httpVars, gpuVars, envVars>>

\* ------------------------------------------------------ the export script
\* step 1: clean up previous local runs
Cleanup ==
    /\ script = "export"
    /\ pc = "cleanup"
    /\ fs' = IF os_path_exists(fs, LOCAL_TEMP_DIR) THEN shutil_rmtree(fs, LOCAL_TEMP_DIR) ELSE fs
    /\ pc' = "export"
    /\ UNCHANGED <<pipelineVars, s3, created, uploadVars, httpVars, gpuVars, envVars>>

\* steps 2 and 3: build the model and export it as a SavedModel
Export ==
    /\ script = "export"
    /\ pc = "export"
    /\ LET written == {os_path_join(export_path, f) : f \in SavedModelFiles}
       IN /\ fs' = [p \in (DOMAIN fs) \cup written |->
                       IF p \in written THEN <<"exported", p[Len(p)]>> ELSE fs[p]]
          /\ created' = created \cup written
    /\ pc' = "config"
    /\ UNCHANGED <<pipelineVars, s3, uploadVars, httpVars, gpuVars, envVars>>

\* step 4: write config.pbtxt
WriteConfig ==
    /\ script = "export"
    /\ pc = "config"
    /\ fs' = Put(fs, config_path, <<"config", "demo-model">>)
    /\ created' = created \cup {config_path}
    /\ pc' = "walk"
    /\ UNCHANGED <<pipelineVars, s3, uploadVars, httpVars, gpuVars, envVars>>

\* step 5 up to the start of its os.walk loop
StartUpload ==
    /\ script = "export"
    /\ pc = "walk"
    /\ todo' = os_walk(fs, LOCAL_TEMP_DIR)
    /\ pc' = "upload"
    /\ UNCHANGED <<pipelineVars, fs, s3, created, calls, httpVars, gpuVars, envVars>>

\* ------------------------------------------------------ the upload loop
\* one iteration whose s3.upload_file returns
UploadFile ==
    /\ pc = "upload"
    /\ \E local_path \in NextWalked(todo) :
         LET key == s3_key(UploadPrefix(script), local_path, UploadRoot(script))
         IN /\ calls' = Append(calls, [local_path |-> local_path, key |-> key])
            /\ s3' = Put(s3, key, fs[local_path])
            /\ todo' = todo \ {local_path}
    /\ UNCHANGED <<pc, pipelineVars, fs, created, httpVars, gpuVars, envVars>>

\* one iteration whose s3.upload_file raises
UploadFileFails ==
    /\ pc = "upload"
    /\ \E local_path \in NextWalked(todo) :
         LET key == s3_key(UploadPrefix(script), local_path, UploadRoot(script))
         IN calls' = Append(calls, [local_path |-> local_path, key |-> key])
    /\ pc' = OnTransferError
    /\ status' = IF script = "pipeline" /\ pc' = "failed"
                 THEN [status EXCEPT !["upload_model"] = "failed"] ELSE status
    /\ UNCHANGED <<order, access, draws, dataset, features, fs, s3, created, todo,
                   httpVars, gpuVars, envVars>>

\* the walk is exhausted
UploadComplete ==
    /\ pc = "upload"
    /\ todo = {}
    /\ pc' = "done"
    /\ status' = IF script = "pipeline"
                 THEN [status EXCEPT !["upload_model"] = "succeeded"] ELSE status
    /\ UNCHANGED <<order, access, draws, dataset, features, fs, s3, created, uploadVars,
                   httpVars, gpuVars, envVars>>

\* ------------------------------------------------------ the smoke test
Request(method, url, body) == [method |-> method, url |-> url, body |-> body]

\* requests.get(TRITON_URL), resp.json() and the metadata look-ups; any of
\* them may raise, which ends the script
GetMetadata ==
    /\ script = "inference"
    /\ pc = "metadata"
    /\ requests' = Append(requests, Request("GET", TRITON_URL, NoBody))
    /\ \/ \E name \in InputNames : metadata' = Metadata(name) /\ pc' = "infer1"
       \/ metadata' = metadata /\ pc' = "failed"
    /\ UNCHANGED <<pipelineVars, fs, s3, created, uploadVars, payload, gpuVars, envVars>>

\* prediction 1: build the payload, post it, parse the prediction
Infer1 ==
    /\ script = "inference"
    /\ pc = "infer1"
    /\ payload' = Payload(input_name_of(metadata), data)
    /\ requests' = Append(requests, Request("POST", InferUrl, payload'))
    /\ \/ pc' = "infer2"
       \/ pc' = "failed"
    /\ UNCHANGED <<pipelineVars, fs, s3, created, uploadVars, metadata, gpuVars, envVars>>

\* prediction 2: replace the payload's data, post it, parse the prediction
Infer2 ==
    /\ script = "inference"
    /\ pc = "infer2"
    /\ payload' = SetData(payload, data2)
    /\ requests' = Append(requests, Request("POST", InferUrl, payload'))
    /\ \/ pc' = "done"
       \/ pc' = "failed"
    /\ UNCHANGED <<pipelineVars, fs, s3, created, uploadVars, metadata, gpuVars, envVars>>

\* ------------------------------------------------------ the GPU scripts
\* gpu-check.py: list the devices and branch
GpuCheckList ==
    /\ script = "gpu_check"
    /\ pc = "start"
    /\ IF HasGpu(gpus)
       THEN /\ out' = out \o <<"GPU HARDWARE CHECK", "VICTORY">>
            /\ pc' = "matmul"
       ELSE /\ out' = out \o <<"GPU HARDWARE CHECK", "FAILED - No GPUs found.">>
            /\ pc' = "done"
    /\ UNCHANGED <<pipelineVars, fs, s3, created, uploadVars, httpVars, matmuls, envVars>>

\* the multiplication under tf.device('/GPU:0'): on a device that exists it
\* returns or the runtime raises; with no such device the runtime either
\* raises or places the ops on the CPU (soft device placement)
MatmulOutcomes(n) ==
    IF n > 0 THEN {"GPU:0", "error"} ELSE {"CPU:0", "error"}

GpuCheckMatmul ==
    /\ script = "gpu_check"
    /\ pc = "matmul"
    /\ \E r \in MatmulOutcomes(gpus) :
         /\ matmuls' = Append(matmuls, r)
         /\ IF r = "error"
            THEN out' = out /\ pc' = "failed"
            ELSE out' = Append(out, "Matrix Result: Success") /\ pc' = "done"
    /\ UNCHANGED <<pipelineVars, fs, s3, created, uploadVars, httpVars, envVars>>

\* gpu-demo.py: the multiplication with no look at the inventory
GpuDemo ==
    /\ script = "gpu_demo"
    /\ pc = "start"
    /\ \E r \in MatmulOutcomes(gpus) :
         /\ matmuls' = Append(matmuls, r)
         /\ IF r = "error"
            THEN out' = Append(out, "DEMO COMPLETE") /\ pc' = "failed"
            ELSE /\ out' = out \o <<"DEMO COMPLETE", "The GPU is fully operational.">>
                 /\ pc' = "done"
    /\ UNCHANGED <<pipelineVars, fs, s3, created, uploadVars, httpVars, envVars>>

Next ==
    \/ StartTask
    \/ data_processing
    \/ feature_extract
    \/ train_model
    \/ upload_model
    \/ Cleanup
    \/ Export
    \/ WriteConfig
    \/ StartUpload
    \/ UploadFile
    \/ UploadFileFails
    \/ UploadComplete
    \/ GetMetadata
    \/ Infer1
    \/ Infer2
    \/ GpuCheckList
    \/ GpuCheckMatmul
    \/ GpuDemo

Spec == Init /\ [][Next]_vars

\* ================================================================ properties
Uploading == script \in {"pipeline", "export"}

LocalTree == os_walk(fs, UploadRoot(script))

\* the keys a listing of the upload prefix returns
Listed == {k \in DOMAIN s3 : IsPrefix(UploadPrefix(script), k) /\ Len(k) > Len(UploadPrefix(script))}

RelativeKeys == {os_path_relpath(k, UploadPrefix(script)) : k \in Listed}

RelativeFiles == {os_path_relpath(p, UploadRoot(script)) : p \in LocalTree}

Called == {calls[i].local_path : i \in DOMAIN calls}

PipelineOrder == <<"data_processing", "feature_extract", "train_model", "upload_model">>

DownstreamAccesses ==
    {<<"data_processing", "write", "dataset">>,
     <<"feature_extract", "read", "dataset">>, <<"feature_extract", "write", "features">>,
     <<"train_model", "read", "features">>, <<"train_model", "write", "model">>,
     <<"upload_model", "read", "model">>}

\* C1: the four pipeline steps start in the order data_processing,
\* feature_extract, train_model, upload_model; a step that has started has
\* its input artifact's producer finished successfully; and the only
\* accesses are the downstream ones (dataset read by feature_extract only,
\* features by train_model only, model by upload_model only).
C1_StrictlyDownstream ==
    script = "pipeline" =>
        /\ IsPrefix(order, PipelineOrder)
        /\ \A s \in Steps : status[s] # "pending" <=> s \in Range(order)
        /\ \A rd \in DownstreamAccesses : \A wr \in DownstreamAccesses :
              (rd[2] = "read" /\ wr[2] = "write" /\ rd[3] = wr[3]
                  /\ status[rd[1]] # "pending")
                  => status[wr[1]] = "succeeded"
        /\ access \subseteq DownstreamAccesses

C1_Witness ==
    /\ script = "pipeline"
    /\ order = PipelineOrder
    /\ status["upload_model"] = "succeeded"
    /\ access = DownstreamAccesses

\* C2 as stated: once the upload loop has completed, the listing of the
\* prefix has exactly the local tree's relative paths, with identical
\* contents, whatever the bucket held before.
C2_ListingEqualsTree ==
    (Uploading /\ pc = "done") =>
        /\ RelativeKeys = RelativeFiles
        /\ \A p \in LocalTree :
              s3[s3_key(UploadPrefix(script), p, UploadRoot(script))] = fs[p]

\* C2 amended: once the upload loop has completed, every file of the local
\* tree is in the bucket at <prefix>/<relative path> with identical contents,
\* and every other key under the prefix was in the bucket before the run and
\* is unchanged; the listing equals the tree when the bucket held no such key.
C2_TreeIsMirrored ==
    (Uploading /\ pc = "done") =>
        /\ RelativeFiles \subseteq RelativeKeys
        /\ \A p \in LocalTree :
              LET k == os_path_join(UploadPrefix(script), os_path_relpath(p, UploadRoot(script)))
              IN k \in DOMAIN s3 /\ s3[k] = fs[p]
        /\ \A k \in Listed :
              os_path_relpath(k, UploadPrefix(script)) \notin RelativeFiles
                  => k \in DOMAIN s3_0 /\ s3[k] = s3_0[k]
        /\ (\A k \in DOMAIN s3_0 :
               IsPrefix(UploadPrefix(script), k)
                   => os_path_relpath(k, UploadPrefix(script)) \in RelativeFiles)
              => RelativeKeys = RelativeFiles

C2_Witness ==
    /\ script = "export"
    /\ pc = "done"
    /\ DOMAIN s3_0 = StaleKeys("export")
    /\ Cardinality(LocalTree) = 5
    /\ Cardinality(Listed) = 6

VersionPrefix == <<"production", "demo-model", "1">>

\* C3 as stated: every key the export script uploads begins with
\* production/demo-model/1/.
C3_AllKeysUnderVersion ==
    script = "export" =>
        \A i \in DOMAIN calls : IsPrefix(VersionPrefix, calls[i].key)

\* C3 amended: every key the export script uploads begins with
\* production/demo-model/; the SavedModel files go to
\* production/demo-model/1/model.savedmodel/..., and config.pbtxt goes to
\* production/demo-model/config.pbtxt, next to the version directory.
C3_KeyLayout ==
    script = "export" =>
        /\ \A i \in DOMAIN calls :
              /\ IsPrefix(<<"production", "demo-model">>, calls[i].key)
              /\ IF calls[i].local_path = <<"temp_export", "config.pbtxt">>
                 THEN calls[i].key = <<"production", "demo-model", "config.pbtxt">>
                 ELSE IsPrefix(<<"production", "demo-model", "1", "model.savedmodel">>,
                               calls[i].key)
        /\ pc = "done" => Cardinality(Called) = Cardinality(SavedModelFiles) + 1

C3_Witness ==
    /\ script = "export"
    /\ pc = "done"
    /\ \E i \in DOMAIN calls : calls[i].key = <<"production", "demo-model", "config.pbtxt">>
    /\ \E i \in DOMAIN calls :
          calls[i].key = <<"production", "demo-model", "1", "model.savedmodel", "saved_model.pb">>

Field(file, i, c) == file.lines[i][ColumnIndex(file.header, c)]

WeightedSum(i) ==
    (IF Field(dataset, i, "amount") > 1000 THEN 30 ELSE 0)
    + (IF Field(dataset, i, "account_age_days") < 90 THEN 30 ELSE 0)
    + (IF Field(dataset, i, "tx_frequency_7d") > 10 THEN 20 ELSE 0)
    + draws[i].noise

\* C4: in every generated table, is_fraud of every row is 0 or 1, and it is 1
\* exactly when 0.3*[amount > 1000] + 0.3*[account_age_days < 90]
\* + 0.2*[tx_frequency_7d > 10] + noise, noise in [0, 0.2], is strictly above
\* 0.5 (hundredths: 30, 30, 20, 0..20, 50); a sum of exactly 0.5 gives 0.
C4_FraudLabel ==
    \A i \in DOMAIN dataset.lines :
        /\ Field(dataset, i, "is_fraud") \in {0, 1}
        /\ draws[i].noise \in 0..20
        /\ Field(dataset, i, "is_fraud") = 1 <=> WeightedSum(i) > 50

C4_Witness ==
    /\ \E i \in DOMAIN dataset.lines :
          WeightedSum(i) = 50 /\ Field(dataset, i, "is_fraud") = 0
    /\ \E i \in DOMAIN dataset.lines :
          WeightedSum(i) = 60 /\ Field(dataset, i, "is_fraud") = 1

FeaturePairs ==
    {<<"amount", "amount_norm">>, <<"category", "category_norm">>,
     <<"time_delta", "time_delta_norm">>,
     <<"account_age_days", "account_age_days_norm">>,
     <<"tx_frequency_7d", "tx_frequency_7d_norm">>}

Column(file, c) == {Field(file, i, c) : i \in DOMAIN file.lines}

\* C5: for each of the five feature columns, every normalized value is
\* (value - min)/(max - min + 1e-8): its denominator is positive, it lies in
\* [0,1], the column minimum maps to 0, and a constant column maps to zeros.
C5_Normalized ==
    features # NoFile =>
        \A pr \in FeaturePairs : \A i \in DOMAIN features.lines :
            LET raw == Field(dataset, i, pr[1])
                lo == SetMin(Column(dataset, pr[1]))
                hi == SetMax(Column(dataset, pr[1]))
                v == Field(features, i, pr[2])
            IN /\ v[2] > 0
               /\ v[1] = (raw - lo) * 100000000
               /\ v[2] = (hi - lo) * 100000000 + 1
               /\ 0 <= v[1] /\ v[1] <= v[2]
               /\ raw = lo => v[1] = 0
               /\ lo = hi => v[1] = 0

C5_Witness ==
    /\ features # NoFile
    /\ Cardinality(Column(dataset, "category")) = 1
    /\ Cardinality(Column(dataset, "amount")) = 2
    /\ \E i \in DOMAIN features.lines : Field(features, i, "amount_norm")[1] > 0
    /\ \E i \in DOMAIN features.lines : Field(features, i, "amount_norm")[1] = 0

\* C6: the table feature_extract writes has exactly the five *_norm columns
\* and is_fraud, none of the raw columns, as many rows as its input, and
\* in every row the is_fraud of the input row at the same position.
C6_OutputFrame ==
    features # NoFile =>
        /\ Len(features.header) = 6
        /\ Range(features.header) =
              {"amount_norm", "category_norm", "time_delta_norm",
               "account_age_days_norm", "tx_frequency_7d_norm", "is_fraud"}
        /\ Len(features.lines) = Len(dataset.lines)
        /\ \A i \in DOMAIN features.lines :
              /\ Len(features.lines[i]) = 6
              /\ Field(features, i, "is_fraud") = Field(dataset, i, "is_fraud")

C6_Witness ==
    /\ features # NoFile
    /\ Len(features.lines) = MaxRows
    /\ Field(features, 1, "is_fraud") = 1
    /\ Field(features, 2, "is_fraud") = 0

Printed(line) == \E i \in DOMAIN out : out[i] = line

Finished == pc \in {"done", "failed"}

NothingPersisted == fs = fs_0 /\ s3 = s3_0

\* C7 as stated: a GPU script multiplies on the accelerator and reports
\* success iff the inventory holds a GPU; with an empty inventory it reports
\* failure and attempts no multiplication; it always runs to completion and
\* persists nothing.
C7_ProbeAsStated ==
    script \in {"gpu_check", "gpu_demo"} =>
        /\ pc # "failed"
        /\ NothingPersisted
        /\ gpus = 0 => matmuls = <<>>
        /\ pc = "done" =>
              /\ (Printed("Matrix Result: Success") \/ Printed("The GPU is fully operational."))
                    <=> gpus > 0
              /\ matmuls = <<"GPU:0">> <=> gpus > 0
              /\ gpus = 0 => Printed("FAILED - No GPUs found.")

\* C7 amended: gpu-check.py attempts the multiplication iff the inventory
\* holds a GPU and prints its success line iff that multiplication returned;
\* with an empty inventory it prints the failure line, attempts no
\* multiplication and runs to completion; a fault of the multiplication ends
\* the run.  gpu-demo.py attempts the multiplication whatever the inventory
\* holds.  Neither script persists anything.
C7_Probe ==
    /\ script \in {"gpu_check", "gpu_demo"} => NothingPersisted
    /\ script = "gpu_check" =>
          /\ matmuls # <<>> => gpus > 0
          /\ (Finished /\ gpus > 0) => Len(matmuls) = 1
          /\ Printed("Matrix Result: Success") <=> matmuls = <<"GPU:0">>
          /\ (gpus = 0 /\ pc # "start") =>
                pc = "done" /\ Printed("FAILED - No GPUs found.")
          /\ Printed("FAILED - No GPUs found.") => gpus = 0
          /\ pc = "failed" <=> matmuls = <<"error">>
    /\ script = "gpu_demo" =>
          /\ Finished <=> Len(matmuls) = 1
          /\ pc # "start" => Finished

C7_Witness ==
    /\ script = "gpu_check"
    /\ gpus = 0
    /\ pc = "done"
    /\ Printed("FAILED - No GPUs found.")
    /\ matmuls = <<>>

C8_State ==
    Uploading =>
        /\ \A i, j \in DOMAIN calls : calls[i].local_path = calls[j].local_path => i = j
        /\ Called \subseteq LocalTree
        /\ pc = "failed" =>
              /\ calls # <<>>
              /\ calls[Len(calls)].local_path \in todo
              /\ todo = LocalTree \ {calls[i].local_path : i \in 1..(Len(calls) - 1)}
              /\ \A i \in 1..(Len(calls) - 1) :
                    calls[i].key \in DOMAIN s3 /\ s3[calls[i].key] = fs[calls[i].local_path]
        /\ pc = "done" => Called = LocalTree /\ Len(calls) = Cardinality(LocalTree)

C8_Step ==
    (Uploading /\ pc = "failed") => (pc' = "failed" /\ calls' = calls /\ s3' = s3)

\* C8: each file of the local tree is submitted for upload at most once; once
\* a transfer has failed the run stays failed, submits nothing more (neither
\* the failed file again nor a remaining file) and the objects uploaded
\* before the failure stay in the bucket; a run that ends successfully has
\* submitted every file exactly once.
C8_NoRetryNoRollback == []C8_State /\ [][C8_Step]_vars

C8_Witness ==
    /\ script = "export"
    /\ pc = "failed"
    /\ Len(calls) = 3
    /\ Cardinality(todo) = 3

InferBody(name, d) ==
    [inputs |-> << [name |-> name, shape |-> <<1, 5>>, datatype |-> "FP32", data |-> d] >>]

C9_State ==
    script = "inference" =>
        /\ Len(requests) <= 3
        /\ Len(requests) >= 1 =>
              requests[1] = [method |-> "GET", url |-> "/v2/models/demo-model", body |-> NoBody]
        /\ Len(requests) >= 2 =>
              /\ metadata # NoMetadata
              /\ requests[2] = [method |-> "POST", url |-> "/v2/models/demo-model/infer",
                                body |-> InferBody(metadata.inputs[1].name,
                                                   <<10, 50, 30, 70, 20>>)]
        /\ Len(requests) = 3 =>
              /\ requests[3] = [requests[2] EXCEPT !.body.inputs[1].data = <<90, 10, 80, 20, 95>>]
              /\ requests[3] # requests[2]
        /\ pc = "done" => Len(requests) = 3
        /\ pc = "infer1" => Len(requests) = 1
        /\ pc = "infer2" => Len(requests) = 2

C9_Step ==
    (script = "inference" /\ pc = "failed") => (pc' = "failed" /\ requests' = requests)

\* C9: the smoke test issues one GET metadata request, then two POST infer
\* requests, three in all when it finishes; no infer request precedes the
\* metadata response; both infer requests carry the input name of that
\* response with shape [1,5]; the second differs from the first in its data
\* only; once a request or a parse has failed no further request is sent.
C9_ThreeRequests == []C9_State /\ [][C9_Step]_vars

C9_Witness ==
    /\ script = "inference"
    /\ pc = "done"
    /\ Len(requests) = 3
    /\ requests[3].body.inputs[1].name = "keras_tensor_1"

\* C10: in the export script, whatever temp_export held at the start, only
\* files this run's export and config steps wrote are uploaded, with the
\* contents this run wrote, and a run that finishes has uploaded exactly
\* those files.
C10_NoLeftoverUploaded ==
    script = "export" =>
        /\ Called \subseteq created
        /\ \A i \in DOMAIN calls : fs[calls[i].local_path] # Stale
        /\ pc \in {"upload", "done", "failed"} => LocalTree = created
        /\ pc = "done" => Called = created

C10_Witness ==
    /\ script = "export"
    /\ pc = "done"
    /\ DOMAIN fs_0 = LeftoverFiles
    /\ Called = created
    /\ Cardinality(created) = 5

====
